---- MODULE Spec2Model ----
(***************************************************************************)
(* A model of lib.go of immanuel-254/bradley: GenerateFiles and the        *)
(* Generator methods it drives (classification of top-level declarations,  *)
(* writeBucket, setupThirdParty, processDirectoryImports and               *)
(* rewriteImportsInFile).                                                  *)
(*                                                                         *)
(* Go strings are sequences of one-character strings, so that the string   *)
(* and path functions the code calls (strings.Trim, strings.HasPrefix,     *)
(* strings.Split, strings.Fields, filepath.Join, filepath.Dir, ...) are    *)
(* computed character by character, as the library computes them.          *)
(***************************************************************************)
EXTENDS Naturals, Sequences, FiniteSets

VARIABLES
    pc,          \* position of the run in GenerateFiles / setupThirdParty / the walk
    input,       \* the input file: [file, pkg, readable, decls]
    g,           \* the *Generator built by NewGenerator
    node,        \* node.Decls of the parsed input unit
    di,          \* index of the range loop over node.Decls
    typeDecls,   \* the three buckets and the import list of GenerateFiles
    funcDecls,
    methodDecls,
    allImports,
    fs,          \* the file system below the working directory: path -> node
    deps,        \* what `go mod vendor` materialises: [mods, manifest, files]
    failed,      \* the calls that have returned a non-nil error so far
    lines,       \* the lines the bufio.Scanner of setupThirdParty reads
    li,          \* index of the scanner loop
    todo,        \* the paths filepath.Walk has still to visit
    fs0,         \* the file system at the start of the run
    snapshot,    \* the tree as it was when the latest walk started
    pass         \* how many times processDirectoryImports has been started

vars == <<pc, input, g, node, di, typeDecls, funcDecls, methodDecls, allImports,
          fs, deps, failed, lines, li, todo, fs0, snapshot, pass>>

(***************************************************************************)
(* Bounds of the model.                                                    *)
(***************************************************************************)
MaxDecls == 3
MaxManifest == 3
MaxImports == 1

(***************************************************************************)
(* Strings.                                                                *)
(***************************************************************************)
\* The raw-string quote of Go, U+0060, stands as BackQuote: the character
\* itself cannot be written in a string of this language.
BackQuote == "'"

\* The characters the model uses, in the order of their codes.
Ascii == <<" ", "\"", "#", ".", "/", "1", "=", "_", BackQuote,
           "a", "b", "c", "d", "e", "f", "g", "h", "i", "j", "k", "l", "m",
           "n", "o", "p", "q", "r", "s", "t", "u", "v", "w", "x", "y", "z">>

Ord(c) == CHOOSE k \in 1..Len(Ascii) : Ascii[k] = c

RECURSIVE StrLess(_, _)
StrLess(s, t) ==
    IF t = <<>> THEN FALSE
    ELSE IF s = <<>> THEN TRUE
    ELSE IF Head(s) = Head(t) THEN StrLess(Tail(s), Tail(t))
    ELSE Ord(Head(s)) < Ord(Head(t))

HasPrefix(s, prefix) ==
    /\ Len(s) >= Len(prefix)
    /\ SubSeq(s, 1, Len(prefix)) = prefix

HasSuffix(s, suffix) ==
    /\ Len(s) >= Len(suffix)
    /\ SubSeq(s, Len(s) - Len(suffix) + 1, Len(s)) = suffix

Contains(s, c) == \E k \in 1..Len(s) : s[k] = c

RECURSIVE TrimLeft(_, _)
TrimLeft(s, cutset) ==
    IF s # <<>> /\ Head(s) \in cutset THEN TrimLeft(Tail(s), cutset) ELSE s

RECURSIVE TrimRight(_, _)
TrimRight(s, cutset) ==
    IF s # <<>> /\ s[Len(s)] \in cutset
    THEN TrimRight(SubSeq(s, 1, Len(s) - 1), cutset)
    ELSE s

Trim(s, cutset) == TrimRight(TrimLeft(s, cutset), cutset)

\* strings.Split(s, sep) for a one-character separator: n separators give
\* n + 1 parts, empty parts included.
RECURSIVE SplitFrom(_, _, _)
SplitFrom(s, sep, cur) ==
    IF s = <<>> THEN <<cur>>
    ELSE IF Head(s) = sep THEN <<cur>> \o SplitFrom(Tail(s), sep, <<>>)
    ELSE SplitFrom(Tail(s), sep, Append(cur, Head(s)))

Split(s, sep) == SplitFrom(s, sep, <<>>)

\* strings.Fields(s): the maximal runs of non-space characters.
Fields(s) == SelectSeq(Split(s, " "), LAMBDA part : part # <<>>)

RECURSIVE JoinStrings(_, _)
JoinStrings(parts, sep) ==
    IF parts = <<>> THEN <<>>
    ELSE IF Len(parts) = 1 THEN parts[1]
    ELSE parts[1] \o <<sep>> \o JoinStrings(Tail(parts), sep)

(***************************************************************************)
(* Paths (path/filepath on a slash-separated system).                      *)
(***************************************************************************)
\* The element loop of filepath.Clean: empty and "." elements are dropped, a
\* ".." removes the element before it, and a ".." with nothing to remove is
\* kept at the front of a relative path and dropped from a rooted one.
RECURSIVE CleanElems(_, _, _)
CleanElems(elems, out, rooted) ==
    IF elems = <<>> THEN out
    ELSE LET e == Head(elems) IN
         IF e = <<>> \/ e = <<".">> THEN CleanElems(Tail(elems), out, rooted)
         ELSE IF e = <<".", ".">>
         THEN IF out # <<>> /\ out[Len(out)] # <<".", ".">>
              THEN CleanElems(Tail(elems), SubSeq(out, 1, Len(out) - 1), rooted)
              ELSE IF rooted
                   THEN CleanElems(Tail(elems), out, rooted)
                   ELSE CleanElems(Tail(elems), Append(out, e), rooted)
         ELSE CleanElems(Tail(elems), Append(out, e), rooted)

Clean(path) ==
    IF path = <<>> THEN <<".">>
    ELSE LET rooted == path[1] = "/"
             out    == CleanElems(Split(path, "/"), <<>>, rooted)
         IN  IF rooted THEN <<"/">> \o JoinStrings(out, "/")
             ELSE IF out = <<>> THEN <<".">>
             ELSE JoinStrings(out, "/")

\* filepath.Join: the elements from the first non-empty one on, joined by
\* slashes and cleaned; the empty string when every element is empty.
RECURSIVE Join(_)
Join(elems) ==
    IF elems = <<>> THEN <<>>
    ELSE IF Head(elems) = <<>> THEN Join(Tail(elems))
    ELSE Clean(JoinStrings(elems, "/"))

\* index of the last slash of path, 0 when it has none
LastSlash(path) ==
    IF Contains(path, "/")
    THEN CHOOSE k \in 1..Len(path) :
            /\ path[k] = "/"
            /\ \A j \in (k + 1)..Len(path) : path[j] # "/"
    ELSE 0

Dir(path) == Clean(SubSeq(path, 1, LastSlash(path)))

Base(path) ==
    IF path = <<>> THEN <<".">>
    ELSE LET p == TrimRight(path, {"/"}) IN
         IF p = <<>> THEN <<"/">>
         ELSE SubSeq(p, LastSlash(p) + 1, Len(p))

\* filepath.ToSlash: the separator is already a slash.
ToSlash(path) == path

(***************************************************************************)
(* The names the code uses.                                                *)
(***************************************************************************)
SplitSuffix    == <<"_", "s", "p", "l", "i", "t">>
ThirdPartyName == <<"t", "h", "i", "r", "d", "_", "p", "a", "r", "t", "y">>
VendorDir      == <<"v", "e", "n", "d", "o", "r">>
ModulesTxt     == VendorDir \o <<"/", "m", "o", "d", "u", "l", "e", "s", ".", "t", "x", "t">>
GoSuffix       == <<".", "g", "o">>
TypesSuffix    == <<"_", "t", "y", "p", "e", "s">> \o GoSuffix
FuncsSuffix    == <<"_", "f", "u", "n", "c", "s">> \o GoSuffix
MethodsSuffix  == <<"_", "m", "e", "t", "h", "o", "d", "s">> \o GoSuffix
GoMod          == <<"g", "o", ".", "m", "o", "d">>
ModulePrefix   == <<"#", " ">>
DQ             == "\""

(***************************************************************************)
(* NewGenerator, isThirdParty, rewriteImportsInFile.                       *)
(***************************************************************************)
NewGenerator(in) ==
    LET pkgName == in.pkg \o SplitSuffix IN
    [ProjectName   |-> pkgName,
     OutputDir     |-> pkgName,
     ThirdPartyDir |-> Join(<<pkgName, ThirdPartyName>>),
     ImportPrefix  |-> pkgName \o <<"/">> \o ThirdPartyName]

isThirdParty(path) ==
    IF path = <<>> THEN FALSE
    ELSE LET firstPart == Split(path, "/")[1] IN Contains(firstPart, ".")

\* The body of the loop of rewriteImportsInFile for one import spec: the new
\* imp.Path.Value and whether it was assigned.
RewriteImport(gen, value) ==
    LET pathVal == Trim(value, {DQ}) IN
    IF isThirdParty(pathVal) /\ ~HasPrefix(pathVal, gen.ImportPrefix)
    THEN LET newPath == ToSlash(Join(<<gen.ImportPrefix, pathVal>>)) IN
         [value |-> <<DQ>> \o newPath \o <<DQ>>, changed |-> TRUE]
    ELSE [value |-> value, changed |-> FALSE]

rewriteImportsInFile(gen, imports) ==
    [imports |-> [k \in 1..Len(imports) |-> RewriteImport(gen, imports[k]).value],
     changed |-> \E k \in 1..Len(imports) : RewriteImport(gen, imports[k]).changed]

(***************************************************************************)
(* go/parser, as far as the code depends on it.                            *)
(***************************************************************************)
\* strconv.Unquote of a string literal without escapes: the text between the
\* quotes, double or raw.
Unquote(lit) == SubSeq(lit, 2, Len(lit) - 1)

IllegalImportChars == {" ", DQ, "#", "=", BackQuote}

\* parser.isValidImport: a non-empty path without illegal characters.
isValidImport(lit) ==
    LET p == Unquote(lit) IN
    /\ p # <<>>
    /\ \A k \in 1..Len(p) : p[k] \notin IllegalImportChars

\* parser.ParseFile on a file of the tree succeeds when its syntax is sound
\* and every import path in it is valid.
ParsesOK(file) ==
    /\ file.ok
    /\ \A k \in 1..Len(file.imports) : isValidImport(file.imports[k])

\* parser.ParseFile on the input file: a declaration the parser cannot read
\* is a BadDecl of the tree and an error of the call.
InputParsesOK(in) ==
    /\ in.readable
    /\ \A k \in 1..Len(in.decls) : in.decls[k].type # "BadDecl"

(***************************************************************************)
(* The file system: a function from cleaned relative paths to nodes.       *)
(***************************************************************************)
DirNode == [kind |-> "dir"]

FileNode(pkg, imports, decls, ok) ==
    [kind |-> "file", pkg |-> pkg, imports |-> imports, decls |-> decls, ok |-> ok]

TextNode(text) == [kind |-> "text", text |-> text]

Exists(f, path) == path \in DOMAIN f

IsDir(f, path) == Exists(f, path) /\ f[path].kind = "dir"

IsUnder(path, root) == path = root \/ HasPrefix(path, root \o <<"/">>)

\* the directories on the way to path, path included
Ancestors(path) ==
    IF path = <<".">> THEN {}
    ELSE LET elems == Split(path, "/") IN
         {JoinStrings(SubSeq(elems, 1, k), "/") : k \in 1..Len(elems)}

ParentExists(f, path) == Dir(path) = <<".">> \/ IsDir(f, Dir(path))

\* os.MkdirAll: creates the missing directories on the way to path; fails,
\* creating nothing, when something on the way is not a directory.
MkdirAll(f, path) ==
    LET want == Ancestors(Clean(path)) IN
    IF \E a \in want : Exists(f, a) /\ ~IsDir(f, a) THEN f
    ELSE [p \in DOMAIN f \cup want |-> IF p \in DOMAIN f THEN f[p] ELSE DirNode]

\* os.Rename fails when the new name is an existing directory, when the old
\* name does not exist, or when the directory of the new name does not.
RenameOK(f, old, new) ==
    /\ Exists(f, old)
    /\ ~IsDir(f, new)
    /\ ~(Exists(f, new) /\ IsDir(f, old))
    /\ ParentExists(f, new)
    /\ ~IsUnder(new, old)

Moved(path, old, new) == new \o SubSeq(path, Len(old) + 1, Len(path))

Rename(f, old, new) ==
    IF ~RenameOK(f, old, new) THEN f
    ELSE LET stay == {p \in DOMAIN f : ~IsUnder(p, old) /\ p # new}
             move == {p \in DOMAIN f : IsUnder(p, old)}
         IN  [p \in stay \cup {Moved(q, old, new) : q \in move} |->
                 IF p \in stay THEN f[p]
                 ELSE f[CHOOSE q \in move : Moved(q, old, new) = p]]

RemoveAll(f, path) == [p \in {q \in DOMAIN f : ~IsUnder(q, path)} |-> f[p]]

\* os.WriteFile / os.Create followed by a complete write
WriteOK(f, path) == ParentExists(f, path) /\ ~IsDir(f, path)

WriteFile(f, path, content) ==
    IF ~WriteOK(f, path) THEN f
    ELSE [p \in DOMAIN f \cup {path} |-> IF p = path THEN content ELSE f[p]]

EmptyFS == [p \in {} |-> DirNode]

\* the union of two trees with disjoint domains
Overlay(f, h) == [p \in DOMAIN f \cup DOMAIN h |-> IF p \in DOMAIN h THEN h[p] ELSE f[p]]

(***************************************************************************)
(* filepath.Walk: the root, then the entries of each directory in the      *)
(* order of their names, a directory before what it holds.                 *)
(***************************************************************************)
RECURSIVE ElemsLess(_, _)
ElemsLess(a, b) ==
    IF b = <<>> THEN FALSE
    ELSE IF a = <<>> THEN TRUE
    ELSE IF Head(a) = Head(b) THEN ElemsLess(Tail(a), Tail(b))
    ELSE StrLess(Head(a), Head(b))

PathLess(p, q) == ElemsLess(Split(p, "/"), Split(q, "/"))

RECURSIVE SortPaths(_)
SortPaths(paths) ==
    IF paths = {} THEN <<>>
    ELSE LET first == CHOOSE p \in paths : \A q \in paths \ {p} : PathLess(p, q)
         IN  <<first>> \o SortPaths(paths \ {first})

WalkOrder(f, root) ==
    IF ~Exists(f, root) THEN <<root>>
    ELSE SortPaths({p \in DOMAIN f : IsUnder(p, root)})

(***************************************************************************)
(* GenerateFiles: NewGenerator, the parse and the classification loop.     *)
(***************************************************************************)
NoGenerator ==
    [ProjectName |-> <<>>, OutputDir |-> <<>>, ThirdPartyDir |-> <<>>, ImportPrefix |-> <<>>]

\* g := NewGenerator(inputFile). The error of its parse is dropped: on a file
\* that cannot be read node is nil and node.Name panics.
NewGen ==
    /\ pc = "start"
    /\ IF input.readable
       THEN g' = NewGenerator(input) /\ pc' = "parse" /\ failed' = failed
       ELSE g' = g /\ pc' = "panic" /\ failed' = failed \cup {"newgen"}
    /\ UNCHANGED <<input, node, di, typeDecls, funcDecls, methodDecls, allImports,
                   fs, deps, lines, li, todo, fs0, snapshot, pass>>

\* node, err := parser.ParseFile(...); if err != nil { panic(err) }
Parse ==
    /\ pc = "parse"
    /\ IF InputParsesOK(input)
       THEN node' = input.decls /\ pc' = "classify" /\ failed' = failed
       ELSE node' = node /\ pc' = "panic" /\ failed' = failed \cup {"parse"}
    /\ di' = 1
    /\ UNCHANGED <<input, g, typeDecls, funcDecls, methodDecls, allImports,
                   fs, deps, lines, li, todo, fs0, snapshot, pass>>

\* ClassifyDecl with the else of the receiver test lost: a function without
\* a receiver goes to both buckets.
ClassifyDecl_dup(d, b) ==
    IF d.type = "GenDecl"
    THEN IF d.Tok = "import"
         THEN [b EXCEPT !.imports = b.imports \o d.Specs]
         ELSE [b EXCEPT !.types = Append(b.types, d)]
    ELSE IF d.type = "FuncDecl"
    THEN IF ~d.Recv
         THEN [b EXCEPT !.funcs = Append(b.funcs, d), !.methods = Append(b.methods, d)]
         ELSE [b EXCEPT !.methods = Append(b.methods, d)]
    ELSE b

\* ClassifyDecl with the receiver test inverted.
ClassifyDecl_swapped(d, b) ==
    IF d.type = "GenDecl"
    THEN IF d.Tok = "import"
         THEN [b EXCEPT !.imports = b.imports \o d.Specs]
         ELSE [b EXCEPT !.types = Append(b.types, d)]
    ELSE IF d.type = "FuncDecl"
    THEN IF d.Recv
         THEN [b EXCEPT !.funcs = Append(b.funcs, d)]
         ELSE [b EXCEPT !.methods = Append(b.methods, d)]
    ELSE b

\* The body of the loop over node.Decls: the type switch on one declaration,
\* applied to the buckets b = [types, funcs, methods, imports].
ClassifyDecl(d, b) ==
    IF d.type = "GenDecl"
    THEN IF d.Tok = "import"
         THEN [b EXCEPT !.imports = b.imports \o d.Specs]
         ELSE [b EXCEPT !.types = Append(b.types, d)]
    ELSE IF d.type = "FuncDecl"
    THEN IF ~d.Recv
         THEN [b EXCEPT !.funcs = Append(b.funcs, d)]
         ELSE [b EXCEPT !.methods = Append(b.methods, d)]
    ELSE b

Buckets ==
    [types |-> typeDecls, funcs |-> funcDecls, methods |-> methodDecls, imports |-> allImports]

Classify ==
    /\ pc = "classify"
    /\ di <= Len(node)
    /\ LET b == ClassifyDecl(node[di], Buckets) IN
       /\ typeDecls' = b.types
       /\ funcDecls' = b.funcs
       /\ methodDecls' = b.methods
       /\ allImports' = b.imports
    /\ di' = di + 1
    /\ UNCHANGED <<pc, input, g, node, fs, deps, failed, lines, li, todo, fs0,
                   snapshot, pass>>

\* os.MkdirAll(g.OutputDir, 0755) after the loop
MakeOutputDir ==
    /\ pc = "classify"
    /\ di > Len(node)
    /\ fs' = MkdirAll(fs, g.OutputDir)
    /\ pc' = "write_types"
    /\ UNCHANGED <<input, g, node, di, typeDecls, funcDecls, methodDecls, allImports,
                   deps, failed, lines, li, todo, fs0, snapshot, pass>>

(***************************************************************************)
(* writeBucket.                                                            *)
(***************************************************************************)
ImportDecl(specs) == [type |-> "GenDecl", Tok |-> "import", Recv |-> FALSE, Specs |-> specs, pos |-> 0]

\* NewFile with the bucket taken from its second declaration on.
NewFile_dropFirst(gen, decls, availableImports) ==
    [Name |-> gen.ProjectName, Decls |-> <<ImportDecl(availableImports)>> \o Tail(decls)]

\* newFile := &ast.File{Name: ..., Decls: append([]ast.Decl{import decl}, decls...)}
NewFile(gen, decls, availableImports) ==
    [Name |-> gen.ProjectName, Decls |-> <<ImportDecl(availableImports)>> \o decls]

IsImportDecl(d) == d.type = "GenDecl" /\ d.Tok = "import"

RECURSIVE SpecsOf(_)
SpecsOf(decls) ==
    IF decls = <<>> THEN <<>>
    ELSE IF IsImportDecl(Head(decls)) THEN Head(decls).Specs \o SpecsOf(Tail(decls))
    ELSE SpecsOf(Tail(decls))

\* What format.Node prints for a file is what a parser reads back from it: the
\* package clause, the import specs and the other declarations.
Printed(file) ==
    FileNode(file.Name, SpecsOf(file.Decls),
             SelectSeq(file.Decls, LAMBDA d : ~IsImportDecl(d)), TRUE)

\* the sub-sequence of s at the indexes in keep
RECURSIVE Pick(_, _, _)
Pick(s, keep, k) ==
    IF k > Len(s) THEN <<>>
    ELSE IF k \in keep THEN <<s[k]>> \o Pick(s, keep, k + 1)
    ELSE Pick(s, keep, k + 1)

\* imports.Process keeps the import specs the declarations use: those at the
\* indexes in used.
Process(text, used) == [text EXCEPT !.imports = Pick(text.imports, used, 1)]

BucketOutcomes == {"ok", "format", "process"}

\* writeBucket with the outcome of format.Node and imports.Process: the file
\* system it leaves and whether it returns an error.
writeBucket(gen, f, filename, decls, availableImports, outcome, used) ==
    IF Len(decls) = 0 THEN [fs |-> f, err |-> FALSE]
    ELSE IF outcome # "ok" THEN [fs |-> f, err |-> TRUE]
    ELSE LET newFile   == NewFile(gen, decls, availableImports)
             optimized == Process(Printed(newFile), used)
             path      == Join(<<gen.OutputDir, filename>>)
         IN  [fs |-> WriteFile(f, path, optimized), err |-> ~WriteOK(f, path)]

\* One of the three calls g.writeBucket(base+suffix, decls, allImports) of
\* GenerateFiles; the error it returns is not looked at. The outcome of the
\* printer and of the pruning is drawn only where writeBucket reaches them.
WriteCall(at, suffix, decls, next) ==
    /\ pc = at
    /\ \E outcome \in (IF decls = <<>> THEN {"ok"} ELSE BucketOutcomes) :
       \E used \in (IF decls = <<>> \/ outcome # "ok" THEN {{}} ELSE SUBSET (1..Len(allImports))) :
         LET base == Base(input.file)
             r    == writeBucket(g, fs, base \o suffix, decls, allImports, outcome, used)
         IN  /\ fs' = r.fs
             /\ failed' = IF r.err THEN failed \cup {at} ELSE failed
    /\ pc' = next
    /\ UNCHANGED <<input, g, node, di, typeDecls, funcDecls, methodDecls, allImports,
                   deps, lines, li, todo, fs0, snapshot, pass>>

WriteTypes == WriteCall("write_types", TypesSuffix, typeDecls, "write_funcs")

WriteFuncs == WriteCall("write_funcs", FuncsSuffix, funcDecls, "write_methods")

WriteMethods == WriteCall("write_methods", MethodsSuffix, methodDecls, "modinit")

\* runCmd(g.OutputDir, "go", "mod", "init", g.ProjectName): the command may
\* fail; its error is not looked at.
ModInit ==
    /\ pc = "modinit"
    /\ \E ok \in BOOLEAN :
         IF ok
         THEN /\ fs' = WriteFile(fs, Join(<<g.OutputDir, GoMod>>), TextNode(<<g.ProjectName>>))
              /\ failed' = failed
         ELSE /\ fs' = fs
              /\ failed' = failed \cup {"modinit"}
    /\ pc' = "vendor"
    /\ UNCHANGED <<input, g, node, di, typeDecls, funcDecls, methodDecls, allImports,
                   deps, lines, li, todo, fs0, snapshot, pass>>

(***************************************************************************)
(* setupThirdParty.                                                        *)
(***************************************************************************)
VendoredFile == <<"v", ".", "g", "o">>

\* What a successful `go mod vendor` leaves in the working directory: the
\* vendor directory, vendor/modules.txt and one directory per vendored module
\* with its source file.
VendorFS(d) ==
    LET mods   == DOMAIN d.files
        dirs   == {VendorDir} \cup UNION {Ancestors(Join(<<VendorDir, m>>)) : m \in mods}
        files  == {Join(<<VendorDir, m, VendoredFile>>) : m \in mods}
        modOf(path) == CHOOSE m \in mods : Join(<<VendorDir, m, VendoredFile>>) = path
    IN  [p \in dirs \cup files \cup {ModulesTxt} |->
            IF p = ModulesTxt THEN TextNode(d.manifest)
            ELSE IF p \in files THEN d.files[modOf(p)]
            ELSE DirNode]

HasDeps(d) == DOMAIN d.files # {}

\* The outcomes of `go mod vendor`: it replaces the vendor directory by the
\* dependencies and their manifest ("ok"), removes it when there is nothing
\* to vendor ("nodeps"), fails before touching it ("fail"), or fails after
\* replacing it and before writing the manifest ("partial").
VendorOutcomes(d) == IF HasDeps(d) THEN {"ok", "fail", "partial"} ELSE {"nodeps", "fail"}

RunVendor(f, d, outcome) ==
    IF outcome = "ok" THEN Overlay(RemoveAll(f, VendorDir), VendorFS(d))
    ELSE IF outcome = "nodeps" THEN RemoveAll(f, VendorDir)
    ELSE IF outcome = "partial"
    THEN Overlay(RemoveAll(f, VendorDir), RemoveAll(VendorFS(d), ModulesTxt))
    ELSE f

\* if err := runCmd("", "go", "mod", "vendor"); err != nil { return err }
\* The caller panics on the error. The deferred os.RemoveAll("vendor") is
\* registered only after this return.
Vendor ==
    /\ pc = "vendor"
    /\ \E outcome \in VendorOutcomes(deps) :
         /\ fs' = RunVendor(fs, deps, outcome)
         /\ IF outcome \in {"ok", "nodeps"}
            THEN pc' = "open" /\ failed' = failed
            ELSE pc' = "panic" /\ failed' = failed \cup {"vendor"}
    /\ UNCHANGED <<input, g, node, di, typeDecls, funcDecls, methodDecls, allImports,
                   deps, lines, li, todo, fs0, snapshot, pass>>

\* f, err := os.Open("vendor/modules.txt"); if err != nil { return err }
\* with the deferred os.RemoveAll("vendor") run on that return.
OpenManifest ==
    /\ pc = "open"
    /\ \E readable \in BOOLEAN :
         IF Exists(fs, ModulesTxt) /\ readable
         THEN /\ lines' = fs[ModulesTxt].text
              /\ fs' = fs
              /\ pc' = "scan"
              /\ failed' = failed
         ELSE /\ lines' = lines
              /\ fs' = RemoveAll(fs, VendorDir)
              /\ pc' = "panic"
              /\ failed' = failed \cup {"open"}
    /\ li' = 1
    /\ UNCHANGED <<input, g, node, di, typeDecls, funcDecls, methodDecls, allImports,
                   deps, todo, fs0, snapshot, pass>>

\* The body of the scanner loop for a line that starts with "# ": the file
\* system after os.MkdirAll and os.Rename, and whether the rename succeeded.
RelocateEntry(gen, f, line) ==
    LET mod     == Fields(line)[2]
        oldPath == Join(<<VendorDir, mod>>)
        newPath == Join(<<gen.ThirdPartyDir, mod>>)
        f1      == MkdirAll(f, Dir(newPath))
    IN  [fs |-> Rename(f1, oldPath, newPath), ok |-> RenameOK(f1, oldPath, newPath)]

\* OnRenameError with break for continue: the loop ends at the failed move.
OnRenameError_break(k, n) == [li |-> n + 1, pc |-> "scan"]

\* OnRenameError with the error returned to the caller, which panics on it.
OnRenameError_return(k, n) == [li |-> k, pc |-> "panic"]

\* if err := os.Rename(oldPath, newPath); err != nil { continue }: the loop
\* goes on with the next line.
OnRenameError(k, n) == [li |-> k + 1, pc |-> "scan"]

ScanLine ==
    /\ pc = "scan"
    /\ li <= Len(lines)
    /\ IF HasPrefix(lines[li], ModulePrefix)
       THEN LET r    == RelocateEntry(g, fs, lines[li])
                next == IF r.ok THEN [li |-> li + 1, pc |-> "scan"]
                        ELSE OnRenameError(li, Len(lines))
            IN  /\ li' = next.li
                /\ pc' = next.pc
                /\ failed' = IF r.ok THEN failed ELSE failed \cup {"rename"}
                /\ fs' = IF next.pc = "panic" THEN RemoveAll(r.fs, VendorDir) ELSE r.fs
       ELSE /\ li' = li + 1
            /\ UNCHANGED <<pc, failed, fs>>
    /\ UNCHANGED <<input, g, node, di, typeDecls, funcDecls, methodDecls, allImports,
                   deps, lines, todo, fs0, snapshot, pass>>

\* return nil, with the deferred f.Close() and os.RemoveAll("vendor")
ScanDone ==
    /\ pc = "scan"
    /\ li > Len(lines)
    /\ fs' = RemoveAll(fs, VendorDir)
    /\ pc' = "shade"
    /\ UNCHANGED <<input, g, node, di, typeDecls, funcDecls, methodDecls, allImports,
                   deps, failed, lines, li, todo, fs0, snapshot, pass>>

(***************************************************************************)
(* processDirectoryImports: the walk and its callback.                     *)
(***************************************************************************)
\* filepath.Walk(root, ...) starts
StartWalk(from) ==
    /\ pc = from
    /\ todo' = WalkOrder(fs, g.OutputDir)
    /\ snapshot' = fs
    /\ pass' = pass + 1
    /\ pc' = "walk"
    /\ UNCHANGED <<input, g, node, di, typeDecls, funcDecls, methodDecls, allImports,
                   fs, deps, failed, lines, li, fs0>>

\* g.processDirectoryImports(g.OutputDir) in GenerateFiles
Shade == StartWalk("shade")

\* The callback on one path: "skip" for a directory or a file that is not a
\* .go file, "error" for a path that cannot be read or parsed, "write" for a
\* file whose imports changed, "keep" for one whose imports did not.
Visit(gen, f, path) ==
    IF ~Exists(f, path) THEN [what |-> "error", fs |-> f]
    ELSE IF f[path].kind = "dir" \/ ~HasSuffix(path, GoSuffix) THEN [what |-> "skip", fs |-> f]
    ELSE IF f[path].kind # "file" \/ ~ParsesOK(f[path]) THEN [what |-> "error", fs |-> f]
    ELSE LET r == rewriteImportsInFile(gen, f[path].imports) IN
         IF r.changed
         THEN [what |-> "write", fs |-> WriteFile(f, path, [f[path] EXCEPT !.imports = r.imports])]
         ELSE [what |-> "keep", fs |-> f]

\* One call of the callback. An error it returns ends the walk, and
\* processDirectoryImports returns it.
WalkStep ==
    /\ pc = "walk"
    /\ todo # <<>>
    /\ LET r == Visit(g, fs, Head(todo)) IN
       /\ fs' = r.fs
       /\ IF r.what = "error"
          THEN pc' = "walked" /\ failed' = failed \cup {"shade"} /\ todo' = todo
          ELSE pc' = "walk" /\ failed' = failed /\ todo' = Tail(todo)
    /\ UNCHANGED <<input, g, node, di, typeDecls, funcDecls, methodDecls, allImports,
                   deps, lines, li, fs0, snapshot, pass>>

\* the walk has visited every path: processDirectoryImports returns nil
WalkDone ==
    /\ pc = "walk"
    /\ todo = <<>>
    /\ pc' = "walked"
    /\ UNCHANGED <<input, g, node, di, typeDecls, funcDecls, methodDecls, allImports,
                   fs, deps, failed, lines, li, todo, fs0, snapshot, pass>>

\* runCmd(g.OutputDir, "go", "mod", "tidy") and the "Done!" line; what
\* processDirectoryImports returned is not looked at.
Tidy ==
    /\ pc = "walked"
    /\ pc' = "done"
    /\ UNCHANGED <<input, g, node, di, typeDecls, funcDecls, methodDecls, allImports,
                   fs, deps, failed, lines, li, todo, fs0, snapshot, pass>>

\* processDirectoryImports called once more on the tree it has returned from
ShadeAgain ==
    /\ pass < 2
    /\ StartWalk("walked")

(***************************************************************************)
(* The inputs of the runs.                                                 *)
(***************************************************************************)
Q(path) == <<DQ>> \o path \o <<DQ>>

RawQ(path) == <<BackQuote>> \o path \o <<BackQuote>>

SeqsUpTo(S, n) == UNION {[1..k -> S] : k \in 0..n}

PathF    == <<"f">>
PathOE   == <<"o", "/", "e">>
PathAB   == <<"a", ".", "b">>
PathABX  == <<"a", ".", "b", "/", "x">>
PathABXY == <<"a", ".", "b", "/", "x", "/", "y">>
PathCD   == <<"c", ".", "d">>

InputFile == <<"s", "/", "m", ".", "g", "o">>

Decl(type, tok, recv, specs) ==
    [type |-> type, Tok |-> tok, Recv |-> recv, Specs |-> specs, pos |-> 0]

DeclShapes ==
    {Decl("GenDecl", "import", FALSE, <<Q(PathF)>>),
     Decl("GenDecl", "import", FALSE, <<Q(PathABX), Q(PathOE)>>),
     Decl("GenDecl", "type", FALSE, <<>>),
     Decl("GenDecl", "const", FALSE, <<>>),
     Decl("GenDecl", "var", FALSE, <<>>),
     Decl("FuncDecl", "func", FALSE, <<>>),
     Decl("FuncDecl", "func", TRUE, <<>>),
     Decl("BadDecl", "none", FALSE, <<>>)}

\* the declarations of a file, each with its position as its identity
WithPos(s) == [k \in 1..Len(s) |-> [s[k] EXCEPT !.pos = k]]

Unit(pkg, shapes) ==
    [file |-> InputFile, pkg |-> pkg, readable |-> TRUE, decls |-> WithPos(shapes)]

Unreadable == [file |-> InputFile, pkg |-> <<>>, readable |-> FALSE, decls |-> <<>>]

Inputs == {Unit(pkg, s) : pkg \in {<<"p">>, <<"q">>}, s \in SeqsUpTo(DeclShapes, MaxDecls)}
          \cup {Unreadable}

DefaultInput == Unit(<<"p">>, <<>>)

NoDeps == [files |-> [m \in {} |-> DirNode], manifest |-> <<>>]

InitWith(at, in, gen, f, d) ==
    /\ pc = at
    /\ input = in
    /\ g = gen
    /\ node = <<>>
    /\ di = 1
    /\ typeDecls = <<>>
    /\ funcDecls = <<>>
    /\ methodDecls = <<>>
    /\ allImports = <<>>
    /\ fs = f
    /\ fs0 = f
    /\ deps = d
    /\ failed = {}
    /\ lines = <<>>
    /\ li = 1
    /\ todo = <<>>
    /\ snapshot = f
    /\ pass = 0

(***************************************************************************)
(* SpecClassify: GenerateFiles from its start to the last writeBucket, on  *)
(* every input unit of up to MaxDecls declarations.                        *)
(***************************************************************************)
InitClassify == \E in \in Inputs : InitWith("start", in, NoGenerator, EmptyFS, NoDeps)

NextClassify ==
    \/ NewGen
    \/ Parse
    \/ Classify
    \/ MakeOutputDir
    \/ WriteTypes
    \/ WriteFuncs
    \/ WriteMethods

SpecClassify == InitClassify /\ [][NextClassify]_vars

(***************************************************************************)
(* SpecRelocate: setupThirdParty, on every manifest of up to MaxManifest   *)
(* lines over a chain of nested module paths and an unrelated one, with    *)
(* every choice of the modules that have a directory under vendor.         *)
(***************************************************************************)
ModUniverse == {PathAB, PathABX, PathABXY, PathCD}

ModLine(m) == ModulePrefix \o m \o <<" ", "v", "1">>

ExplicitLine == <<"#", "#", " ", "e", "x", "p", "l", "i", "c", "i", "t">>

ManifestLines == {ModLine(m) : m \in ModUniverse} \cup {ExplicitLine}

SourceOf(m, imports, ok) == FileNode(Base(m), imports, <<>>, ok)

\* the choices of the modules that have a directory of their own under vendor
VendoredSets ==
    {{}, ModUniverse, {PathABXY, PathCD}, {PathAB, PathABX}, {PathABX},
     {PathAB, PathABXY, PathCD}}

RelocateDeps ==
    {[files |-> [m \in mods |-> SourceOf(m, <<>>, TRUE)], manifest |-> lns] :
        mods \in VendoredSets, lns \in SeqsUpTo(ManifestLines, MaxManifest)}

DefaultGen == NewGenerator(DefaultInput)

StaleFile == FileNode(<<"o">>, <<>>, <<>>, TRUE)

\* the output directory of a first run
FreshFS == MkdirAll(EmptyFS, DefaultGen.OutputDir)

\* the working directory after an earlier run: third_party is populated and
\* a vendor directory is there
StaleFS ==
    LET d  == Join(<<DefaultGen.ThirdPartyDir, PathAB>>)
        f1 == WriteFile(MkdirAll(FreshFS, d), Join(<<d, VendoredFile>>), StaleFile)
    IN  WriteFile(MkdirAll(f1, VendorDir), Join(<<VendorDir, VendoredFile>>), StaleFile)

InitRelocate ==
    \E d \in RelocateDeps, f \in {FreshFS, StaleFS} :
        InitWith("vendor", DefaultInput, DefaultGen, f, d)

NextRelocate ==
    \/ Vendor
    \/ OpenManifest
    \/ ScanLine
    \/ ScanDone

SpecRelocate == InitRelocate /\ [][NextRelocate]_vars

(***************************************************************************)
(* SpecShade: processDirectoryImports, twice, on an output tree with a     *)
(* bucket file and a vendored file, each with up to MaxImports imports.    *)
(***************************************************************************)
Shaded(path) == DefaultGen.ImportPrefix \o <<"/">> \o path

ImportValues ==
    {Q(PathF), Q(PathOE), Q(PathAB), Q(PathABX), Q(PathCD),
     Q(Shaded(PathABX)),
     Q(DefaultGen.ProjectName \o <<".", "x", "/", "y">>),
     Q(<<"a", ".", "b", "/", "/", "x">>),
     Q(<<".", "/", "x">>),
     Q(<<".", ".", "/", ".", ".", "/", "c", ".", "d">>),
     Q(<<>>),
     RawQ(PathF), RawQ(PathABX)}

BucketFile == Join(<<DefaultGen.OutputDir, Base(InputFile) \o FuncsSuffix>>)

ThirdPartyFile == Join(<<DefaultGen.ThirdPartyDir, PathAB, VendoredFile>>)

ShadeTree(imports1, imports2) ==
    LET f1 == WriteFile(FreshFS, Join(<<DefaultGen.OutputDir, GoMod>>),
                        TextNode(<<DefaultGen.ProjectName>>))
        f2 == WriteFile(f1, BucketFile, FileNode(DefaultGen.ProjectName, imports1, <<>>, TRUE))
        f3 == MkdirAll(f2, Dir(ThirdPartyFile))
    IN  WriteFile(f3, ThirdPartyFile, SourceOf(PathAB, imports2, TRUE))

InitShade ==
    \E i1 \in SeqsUpTo(ImportValues, MaxImports), i2 \in SeqsUpTo(ImportValues, MaxImports) :
        InitWith("shade", DefaultInput, DefaultGen, ShadeTree(i1, i2), NoDeps)

NextShade ==
    \/ Shade
    \/ WalkStep
    \/ WalkDone
    \/ ShadeAgain

SpecShade == InitShade /\ [][NextShade]_vars

(***************************************************************************)
(* Spec: a whole run of GenerateFiles.                                     *)
(***************************************************************************)
RunInputs ==
    {Unit(<<"p">>, <<Decl("GenDecl", "import", FALSE, <<Q(PathABX), Q(PathF)>>),
                     Decl("GenDecl", "type", FALSE, <<>>),
                     Decl("FuncDecl", "func", FALSE, <<>>),
                     Decl("FuncDecl", "func", TRUE, <<>>)>>),
     Unit(<<"p">>, <<Decl("FuncDecl", "func", FALSE, <<>>)>>),
     Unit(<<"p">>, <<Decl("GenDecl", "type", FALSE, <<>>), Decl("BadDecl", "none", FALSE, <<>>)>>),
     Unreadable}

RunDeps ==
    {NoDeps,
     [files |-> [m \in {PathABX} |-> SourceOf(m, <<Q(PathF)>>, TRUE)],
      manifest |-> <<ModLine(PathABX), ExplicitLine>>],
     [files |-> [m \in {PathAB, PathCD} |->
                    IF m = PathAB THEN SourceOf(m, <<Q(PathCD)>>, TRUE)
                    ELSE SourceOf(m, <<>>, FALSE)],
      manifest |-> <<ModLine(PathAB), ExplicitLine, ModLine(PathABX), ModLine(PathCD)>>]}

Init ==
    \E in \in RunInputs, d \in RunDeps, f \in {EmptyFS, MkdirAll(EmptyFS, VendorDir)} :
        InitWith("start", in, NoGenerator, f, d)

Next ==
    \/ NewGen
    \/ Parse
    \/ Classify
    \/ MakeOutputDir
    \/ WriteTypes
    \/ WriteFuncs
    \/ WriteMethods
    \/ ModInit
    \/ Vendor
    \/ OpenManifest
    \/ ScanLine
    \/ ScanDone
    \/ Shade
    \/ WalkStep
    \/ WalkDone
    \/ Tidy

Spec == Init /\ [][Next]_vars

(***************************************************************************)
(* The classification loop (SpecClassify).                                 *)
(***************************************************************************)
\* how often the declaration at position k of node.Decls stands in bucket b
Count(b, k) == Cardinality({j \in 1..Len(b) : b[j].pos = k})

BucketSet == {typeDecls, funcDecls, methodDecls}

In(b, d) == \E j \in 1..Len(b) : b[j] = d

\* C1: on a successfully parsed unit, every declaration the loop has passed
\* that is no import declaration stands in exactly one of the three buckets,
\* exactly once; no other declaration stands in any bucket, and nothing else
\* does; within each bucket the declarations keep the order of node.Decls.
C1_Partition ==
    /\ \A k \in 1..Len(node) :
         LET n == Count(typeDecls, k) + Count(funcDecls, k) + Count(methodDecls, k) IN
         IF k < di /\ ~IsImportDecl(node[k]) THEN n = 1 ELSE n = 0
    /\ \A b \in BucketSet : \A j \in 1..Len(b) :
         /\ b[j].pos \in 1..Len(node)
         /\ node[b[j].pos] = b[j]
    /\ \A b \in BucketSet : \A i, j \in 1..Len(b) : i < j => b[i].pos < b[j].pos

\* the loop is over, two functions with a type declaration between them
C1_Witness ==
    /\ pc = "write_types"
    /\ Len(funcDecls) = 2
    /\ Len(typeDecls) = 1
    /\ funcDecls[1].pos < typeDecls[1].pos
    /\ typeDecls[1].pos < funcDecls[2].pos

\* C9: of the declarations the loop has passed, a function with a receiver
\* stands in methodDecls alone, a function without one in funcDecls alone,
\* any other declaration that is no import declaration in typeDecls alone,
\* and an import declaration in no bucket; allImports holds the specs of the
\* import declarations passed, in their order.
C9_Rule ==
    /\ \A k \in 1..Len(node) : k < di =>
         LET d == node[k]
             where == {b \in {"types", "funcs", "methods"} : In(Buckets[b], d)}
         IN  IF d.type = "FuncDecl" /\ d.Recv THEN where = {"methods"}
             ELSE IF d.type = "FuncDecl" THEN where = {"funcs"}
             ELSE IF IsImportDecl(d) THEN where = {}
             ELSE where = {"types"}
    /\ allImports = SpecsOf(SubSeq(node, 1, di - 1))

\* the loop is over on an import declaration of two specs, a function and a
\* method
C9_Witness ==
    /\ pc = "write_types"
    /\ Len(allImports) = 2
    /\ funcDecls # <<>>
    /\ methodDecls # <<>>

(***************************************************************************)
(* writeBucket (SpecClassify).                                             *)
(***************************************************************************)
BucketFiles ==
    {[suffix |-> TypesSuffix, decls |-> typeDecls],
     [suffix |-> FuncsSuffix, decls |-> funcDecls],
     [suffix |-> MethodsSuffix, decls |-> methodDecls]}

BucketPath(suffix) == Join(<<g.OutputDir, Base(input.file) \o suffix>>)

IsSubSeqOf(a, b) == \E keep \in SUBSET (1..Len(b)) : Pick(b, keep, 1) = a

Returned == pc \in {"shade", "panic"}

\* C5 as stated: whenever setupThirdParty has returned, the vendor directory
\* does not exist.
C5_Original == Returned => ~Exists(fs, VendorDir)

\* setupThirdParty has returned after it read the manifest
ReturnedAfterScan == Returned /\ "vendor" \notin failed /\ "open" \notin failed

\* the module paths of the manifest read, in its order
Mods ==
    LET entries == SelectSeq(lines, LAMBDA l : HasPrefix(l, ModulePrefix)) IN
    [k \in 1..Len(entries) |-> Fields(entries[k])[2]]

Nested(sub, parent) == sub # parent /\ IsUnder(sub, parent)

ParentFirst == \A i, j \in 1..Len(Mods) : i < j => ~Nested(Mods[i], Mods[j])

ThirdPartyEmptyAtStart ==
    \A p \in DOMAIN fs0 : p = g.ThirdPartyDir \/ ~IsUnder(p, g.ThirdPartyDir)

\* everything `go mod vendor` put at and below vendor/m is at the same
\* relative path below the private third_party directory
Relocated(m) ==
    LET v == VendorFS(deps) IN
    \A p \in DOMAIN v :
        IsUnder(p, Join(<<VendorDir, m>>)) =>
            LET q == Moved(p, VendorDir, g.ThirdPartyDir) IN
            Exists(fs, q) /\ fs[q] = v[p]

Vendored(m) == m \in DOMAIN deps.files

\* the source file of module m is not below third_party
Lost(m) == Vendored(m) /\ ~Exists(fs, Join(<<g.ThirdPartyDir, m, VendoredFile>>))

\* entry i of the manifest is nested under the later entry j, both have
\* files, and no entry before i is j's path or a path above it
Misordered(i, j) ==
    /\ i < j
    /\ Nested(Mods[i], Mods[j])
    /\ Vendored(Mods[i])
    /\ Vendored(Mods[j])
    /\ \A k \in 1..(i - 1) : ~IsUnder(Mods[j], Mods[k])

\* C10: when the manifest lists a sub-package before the module path it is
\* nested under (third_party empty at the start), setupThirdParty, once it
\* has read the manifest, still returns nil, the vendor directory is gone,
\* and the source of some manifest entry is missing below third_party.
C10_SilentLoss ==
    (/\ ReturnedAfterScan
     /\ ThirdPartyEmptyAtStart
     /\ \E i, j \in 1..Len(Mods) : Misordered(i, j)) =>
        /\ pc = "shade"
        /\ ~Exists(fs, VendorDir)
        /\ \E k \in 1..Len(Mods) : Lost(Mods[k])

\* the sub-package a.b/x, listed before a.b, is missing below third_party
\* after a return of nil
C10_Witness ==
    /\ pc = "shade"
    /\ ThirdPartyEmptyAtStart
    /\ \E i, j \in 1..Len(Mods) :
         /\ Misordered(i, j)
         /\ Mods[i] = PathABX
         /\ Mods[j] = PathAB
         /\ Lost(Mods[i])

(***************************************************************************)
(* The import shader (SpecShade).                                          *)
(***************************************************************************)
\* the .go files below the output directory
GoFiles(f) ==
    {p \in DOMAIN f : IsUnder(p, g.OutputDir) /\ f[p].kind = "file" /\ HasSuffix(p, GoSuffix)}

\* an import path is internal when its first segment holds no dot
Internal(path) == ~Contains(Split(path, "/")[1], ".")

\* the first walk has visited every file and returned nil
FirstPassDone == pc = "walked" /\ pass = 1 /\ "shade" \notin failed

\* C2 as stated: after a walk, every import path P of a visited file is
\* unchanged when P is internal, unchanged when P starts with ImportPrefix,
\* and is exactly ImportPrefix/P otherwise.
C2_Original ==
    FirstPassDone =>
        \A p \in GoFiles(fs0) : \A k \in 1..Len(fs0[p].imports) :
            LET before == Unquote(fs0[p].imports[k])
                after  == Unquote(fs[p].imports[k])
            IN  IF Internal(before) \/ HasPrefix(before, g.ImportPrefix)
                THEN after = before
                ELSE after = g.ImportPrefix \o <<"/">> \o before

\* C3 as stated: a second walk over the tree the first walk left changes
\* nothing in it.
C3_Original == (pass = 2 /\ "shade" \notin failed) => fs = snapshot

(***************************************************************************)
(* The run of GenerateFiles (Spec).                                        *)
(***************************************************************************)
\* module init, vendoring, shading or tidy has been executed
LaterPhaseRun == pc \in {"vendor", "open", "scan", "shade", "walk", "walked", "done"}

\* C4 as stated: once the parse, the writing of a bucket or the vendoring
\* has failed, the run is aborted: none of module init, vendoring, shading
\* and tidy is executed after the failure.
C4_Original ==
    /\ (failed \cap {"parse", "vendor", "open"} # {}) => pc = "panic"
    /\ (failed \cap {"write_types", "write_funcs", "write_methods"} # {}) => ~LaterPhaseRun

\* C7 as stated: when a file fails to parse during the walk, the walk stops
\* at that file and the run ends abnormally: it never goes on to tidy and
\* to reporting completion.
C7_Original ==
    "shade" \in failed =>
        /\ todo # <<>>
        /\ ~ParsesOK(fs[Head(todo)])
        /\ pc # "done"

====
